---- MODULE Spec2Model ----
(***************************************************************************)
(* VibeCheck frontend: the content search controller (ContentSelector),    *)
(* the category registry (services/api.js getContentByCategory), the story *)
(* composer (StoryGenerator with StoryCustomizer) and the story renderer   *)
(* (StoryCard).                                                            *)
(*                                                                         *)
(* Texts are sequences of characters, so that String.prototype.trim and    *)
(* JavaScript truthiness of a string are computed, not assumed.            *)
(*                                                                         *)
(* Scheduling: the browser runs one task at a time.  A user event (a click *)
(* on a category button, an edit of the search box) and the completion of  *)
(* a network call may come between any two tasks.  A render caused by a    *)
(* user event is committed and its effect run within the event's own task  *)
(* (React 18, discrete events).  The re-render queued by setSearch("")     *)
(* inside the effect, and the flush of that render's effect, are tasks of  *)
(* their own; they are taken to complete before the clock advances towards *)
(* the 300 ms debounce delay.                                              *)
(***************************************************************************)
EXTENDS Integers, Sequences, FiniteSets, TLC

VARIABLES
  \* ---- ContentSelector: props, hook state, refs ----
  category,      \* prop `category`
  items,         \* useState([])
  search,        \* useState("")
  loading,       \* useState(true)
  error,         \* useState(null)
  revealed,      \* useState(false)
  animKey,       \* useState(0)
  prevCategory,  \* useRef(category)
  reqId,         \* useRef(0)
  \* ---- ContentSelector: scheduled work ----
  timers,        \* pending setTimeout callbacks (closure: category, search)
  pendingReset,  \* setSearch("") queued by the effect, not yet rendered
  pendingEffect, \* a committed render whose effect has not run yet
  inflight,      \* requests whose promise has not settled
  rafPending,    \* requestAnimationFrame callbacks not yet run
  uncaught,      \* exceptions that left a timer callback uncaught
  \* ---- history (for stating the properties) ----
  calls,         \* the sequence numbers fetchContent has captured, in order
  lastResp,      \* the response that arrived last
  hiApplied,     \* the highest sequence number whose response was applied
  bestOk,        \* the highest-numbered request that succeeded, with its result
  topSettled,    \* the highest-numbered request that has settled
  catChanged,    \* category changed and no fetchContent call since
  \* ---- category registry, exercised on its own ----
  regLog,        \* the calls of getContentByCategory made so far
  \* ---- StoryGenerator: hook state (`category` above is its useState too) ----
  selectedContent, \* useState(null)
  caption,       \* useState("")
  sharing,       \* useState(false)
  shareResult,   \* useState(null)
  style,         \* useState(DEFAULT_STYLE)
  shares,        \* the bodies of the createShare calls that have not settled, in call order
  lastUpdate,    \* history: the last (key, value) the customizer passed to onChange
  generator,     \* which of the two StoryGenerator components is mounted
  shareLog,      \* history: what the last step of handleShare was
  \* ---- StoryCard, exercised on its own ----
  card,          \* the props of the card rendered, with what was rendered
  \* ---- AppShell with the Login and Register forms ----
  localStorage,  \* the items "token" and "user" of window.localStorage
  isAuthed,      \* useState(() => Boolean(localStorage.getItem("token")))
  path,          \* the route shown
  status,        \* useState({ loading, error, success }) of the form shown
  authCalls      \* the axios.post calls of the forms that have not settled

vars == <<category, items, search, loading, error, revealed, animKey,
          prevCategory, reqId, timers, pendingReset, pendingEffect, inflight,
          rafPending, uncaught, calls, lastResp, hiApplied, bestOk, topSettled,
          catChanged, regLog, selectedContent, caption, sharing, shareResult,
          style, shares, lastUpdate, generator, shareLog, card,
          localStorage, isAuthed, path, status, authCalls>>

\* the state of the application shell and of the form it shows
shell == <<localStorage, isAuthed, path, status, authCalls>>

\* the state of the story composer and of the card exercised on its own
composer == <<selectedContent, caption, sharing, shareResult, style, shares,
              lastUpdate, generator, shareLog, card>>

\* all that the search controller leaves alone
story == <<composer, shell>>

\* the state of the search controller other than the `category` prop
selector == <<items, search, loading, error, revealed, animKey, prevCategory,
              reqId, timers, pendingReset, pendingEffect, inflight, rafPending,
              uncaught, calls, lastResp, hiApplied, bestOk, topSettled,
              catChanged>>

\* what the search controller shows
shown == <<items, loading, error>>

\* the record of the responses that have arrived
resps == <<lastResp, hiApplied, bestOk, topSettled>>

-----------------------------------------------------------------------------
\* Bounds of the model.

\* fetchContent calls made in one run
MaxReq == 2
\* category changes in one run
MaxCatChanges == 2
\* items in one response
MaxItems == 2
\* getContentByCategory calls made in one run of the registry on its own
MaxCalls == 2
\* axios.post calls of the forms that may be pending together
MaxAuthCalls == 2

-----------------------------------------------------------------------------
\* JavaScript values.

Null == "null"
Undefined == "undefined"

\* the texts typed into the search box: "", " ", "a", " a"
Texts == {<<>>, <<" ">>, <<"a">>, <<" ", "a">>}

\* JavaScript truthiness of a string: "" is the only falsy string.
Truthy(s) == s # <<>>

RECURSIVE TrimStart(_)
TrimStart(s) ==
  IF s # <<>> /\ Head(s) = " " THEN TrimStart(Tail(s)) ELSE s

RECURSIVE TrimEnd(_)
TrimEnd(s) ==
  IF s # <<>> /\ s[Len(s)] = " " THEN TrimEnd(SubSeq(s, 1, Len(s) - 1)) ELSE s

\* String.prototype.trim
Trim(s) == TrimEnd(TrimStart(s))

-----------------------------------------------------------------------------
\* services/api.js: the category registry.

\* const CATEGORY_FETCHERS = { cinema: getMovies, ... }: the object's own keys
CATEGORY_FETCHERS ==
  [c \in {"cinema", "music", "games", "books", "travel"} |->
     CASE c = "cinema" -> "getMovies"
       [] c = "music"  -> "getAlbums"
       [] c = "games"  -> "getGames"
       [] c = "books"  -> "getBooks"
       [] c = "travel" -> "getLocations"]

\* CATEGORY_FETCHERS is an object literal, so its prototype is Object.prototype:
\* a key it does not own is looked up there.
ObjectPrototype ==
  [k \in {"constructor", "toString", "valueOf", "__proto__"} |->
     CASE k = "constructor" -> "Object"
       [] k = "toString"    -> "Object.prototype.toString"
       [] k = "valueOf"     -> "Object.prototype.valueOf"
       [] k = "__proto__"   -> "Object.prototype"]

\* CATEGORY_FETCHERS[category]
Lookup(key) ==
  IF key \in DOMAIN CATEGORY_FETCHERS THEN CATEGORY_FETCHERS[key]
  ELSE IF key \in DOMAIN ObjectPrototype THEN ObjectPrototype[key]
  ELSE Undefined

\* what calling `fetcher(params)` does, fetcher being the value looked up:
\* one of the five api fetchers returns the promise of its GET; Object(params)
\* returns params; toString.call(undefined) returns "[object Undefined]";
\* valueOf.call(undefined) throws; Object.prototype is not callable.
Invoke(fetcher, params) ==
  CASE fetcher \in {CATEGORY_FETCHERS[c] : c \in DOMAIN CATEGORY_FETCHERS} ->
         [kind |-> "return", type |-> "promise", of |-> fetcher, params |-> params,
          calls |-> <<[fn |-> fetcher, params |-> params]>>]
    [] fetcher = "Object" ->
         [kind |-> "return", type |-> "object", of |-> fetcher, params |-> params,
          calls |-> <<[fn |-> fetcher, params |-> params]>>]
    [] fetcher = "Object.prototype.toString" ->
         [kind |-> "return", type |-> "string", of |-> fetcher, params |-> params,
          calls |-> <<[fn |-> fetcher, params |-> params]>>]
    [] fetcher = "Object.prototype.valueOf" ->
         [kind |-> "throw", type |-> "TypeError", of |-> fetcher, params |-> params,
          calls |-> <<[fn |-> fetcher, params |-> params]>>]
    [] OTHER ->
         [kind |-> "throw", type |-> "TypeError", of |-> fetcher, params |-> params,
          calls |-> <<>>]

\* export const getContentByCategory = (category, params = {}) => { ... }
GetContentByCategory(cat, params) ==
  LET fetcher == Lookup(cat)
  IN  IF fetcher = Undefined
      THEN [kind |-> "throw", type |-> "Unknown category", of |-> Undefined,
            params |-> params, calls |-> <<>>]
      ELSE Invoke(fetcher, params)

-----------------------------------------------------------------------------
\* components/stories/ContentSelector.jsx: the search controller.

\* the categories the `category` prop takes: known ones and one that is not
SelectorCategories == {"cinema", "music", "podcasts"}

\* setError("Couldn't load content. Check the server.")
LoadError == "Couldn't load content. Check the server."

\* const delay = search ? 300 : 0
DebounceDelay == 300

Delay(s) == IF Truthy(s) THEN DebounceDelay ELSE 0

\* const timer = setTimeout(() => fetchContent(category, search.trim()), delay)
NewTimer(cat, s) ==
  [cat |-> cat, search |-> s, delay |-> Delay(s), elapsed |-> 0, cur |-> TRUE]

\* the time a timer has waited is either 0 or its whole delay

Due(t) == t.elapsed >= t.delay

\* a cleanup that clears nothing: the old timer stays armed
CleanupNoClear(ts) == {[t EXCEPT !.cur = FALSE] : t \in ts}

\* return () => clearTimeout(timer): the effect's cleanup
Cleanup(ts) == {t \in ts : ~t.cur}

\* the useEffect body, run for a render with props/state (cat, s)
Effect(cat, s, prev, ts) ==
  [prevCategory |-> cat,
   changed      |-> prev # cat,
   resetQueued  |-> prev # cat /\ s # <<>>,
   timers       |-> Cleanup(ts) \cup {NewTimer(cat, s)}]

\* a render committed by a user event first flushes the effect still pending
Flushed ==
  IF pendingEffect
  THEN Effect(category, search, prevCategory, timers)
  ELSE [prevCategory |-> prevCategory, changed |-> FALSE,
        resetQueued |-> pendingReset, timers |-> timers]

\* one item of a response to request `req`
Item(req, n) == [id |-> n, cat |-> req.cat, req |-> req.id]

ItemList(req, n) == [i \in 1..n |-> Item(req, i)]

\* the bodies the content API may answer request `req` with
Bodies(req) ==
  {[hasData |-> FALSE, data |-> <<>>]} \cup
  {[hasData |-> TRUE, data |-> ItemList(req, n)] : n \in 0..MaxItems}

\* the item sequence a response body carries
ResponseItems(res) == IF res.hasData THEN res.data ELSE <<>>

\* a handler that keeps only the first item of the response
DataOrEmptyFirst(res) ==
  IF res.hasData /\ Len(res.data) > 1 THEN SubSeq(res.data, 1, 1)
  ELSE IF res.hasData THEN res.data ELSE <<>>

\* a handler that shows the response's items in reverse order
RECURSIVE Reverse(_)
Reverse(seq) == IF seq = <<>> THEN <<>> ELSE Reverse(Tail(seq)) \o <<Head(seq)>>

DataOrEmptyReversed(res) == IF res.hasData THEN Reverse(res.data) ELSE <<>>

\* res.data || []
DataOrEmpty(res) == IF res.hasData THEN res.data ELSE <<>>

\* a counter that is read but not incremented
NextIdSame(cur) == cur

\* const id = ++reqId.current
NextId(cur) == cur + 1

\* no staleness check at all
IsStaleNever(id, cur) == FALSE

\* a check against the highest applied number instead of the latest issued
IsStaleByApplied(id, cur) == id <= hiApplied

\* a check that only drops a number above the counter, which never occurs
IsStaleIfNewer(id, cur) == id > cur

\* if (id !== reqId.current) return
IsStale(id, cur) == id # cur

\* params that carry the search key also for an empty query
ParamsKeepsSearch(searchQuery) == [limit |-> 5, search |-> searchQuery]

\* const params = { limit: 5 }; if (searchQuery) params.search = searchQuery
Params(searchQuery) ==
  IF Truthy(searchQuery) THEN [limit |-> 5, search |-> searchQuery]
  ELSE [limit |-> 5]

NoResp == [id |-> 0, ok |-> FALSE, result |-> <<>>]

-----------------------------------------------------------------------------
\* components/stories/StoryCustomizer.jsx and StoryGenerator.jsx: the style.

\* const DEFAULT_STYLE = { font: "default", bgColor: null, ... }
DEFAULT_STYLE ==
  [font |-> "default", bgColor |-> Null, bgTexture |-> "none",
   textAlign |-> "left", titleSize |-> "normal", cardLayout |-> "default"]

\* the six fields of a story style
StyleFields == {"font", "bgColor", "bgTexture", "textAlign", "titleSize", "cardLayout"}

\* const FONTS = [...]: the keys
FONTS == {"default", "serif", "mono", "handwritten", "display"}

\* const BG_COLORS = [...]: the keys, null being "Auto"
BG_COLORS ==
  {Null, "#1a1a2e", "#0f2027", "#2d1b69", "#1b4332", "#7f1d1d", "#78350f",
   "#1e1e1e", "#f5f0e8"}

\* const TEXTURES = [...]: the keys
TEXTURES == {"none", "noise", "dots", "diagonal", "grid", "vignette"}

\* the two alignment buttons
ALIGNMENTS == {"left", "center"}

\* const TITLE_SIZES = [...]: the keys
TITLE_SIZES == {"small", "normal", "large"}

\* const LAYOUTS = [...]: the keys
LAYOUTS == {"default", "centered", "minimal"}

\* the keys the customizer offers for a field
Offered(field) ==
  CASE field = "font"       -> FONTS
    [] field = "bgColor"    -> BG_COLORS
    [] field = "bgTexture"  -> TEXTURES
    [] field = "textAlign"  -> ALIGNMENTS
    [] field = "titleSize"  -> TITLE_SIZES
    [] field = "cardLayout" -> LAYOUTS

\* the onClick handlers of the customizer: onChange(field, key)
CustomizerControls ==
  {[key |-> f, value |-> v] : f \in StyleFields, v \in
     FONTS \cup BG_COLORS \cup TEXTURES \cup ALIGNMENTS \cup TITLE_SIZES \cup LAYOUTS}

\* a merge that starts from the defaults instead of the previous style
MergeFromDefault(prev, key, value) ==
  [f \in DOMAIN DEFAULT_STYLE \cup {key} |-> IF f = key THEN value ELSE DEFAULT_STYLE[f]]

\* a merge that keeps the updated field alone
MergeOnlyKey(prev, key, value) == [f \in {key} |-> value]

\* { ...prev, [key]: value }
Merge(prev, key, value) ==
  [f \in DOMAIN prev \cup {key} |-> IF f = key THEN value ELSE prev[f]]

\* no update of the style yet
NoUpdate == [key |-> Undefined, value |-> Undefined]

\* no card rendered yet
NoCard == [rendered |-> FALSE]

\* selectedContent === null (also a `content` prop that is null)
NoContent == [isNull |-> TRUE]

\* shareResult === null
NoResult == [type |-> Null]


Max(a, b) == IF a >= b THEN a ELSE b

\* the two StoryGenerator components of components/stories/StoryCard.jsx
Generators == {"first", "second"}

\* the state after the StoryGenerator `g` and all it renders have mounted
Mount(g) ==
  /\ generator = g
  /\ shareLog = "none"
  /\ category = "cinema"
  /\ items = <<>>
  /\ search = <<>>
  /\ loading = TRUE
  /\ error = Null
  /\ revealed = FALSE
  /\ animKey = 0
  /\ prevCategory = category
  /\ reqId = 0
  /\ timers = {}
  /\ pendingReset = FALSE
  /\ pendingEffect = TRUE
  /\ inflight = {}
  /\ rafPending = 0
  /\ uncaught = 0
  /\ calls = <<>>
  /\ lastResp = NoResp
  /\ hiApplied = 0
  /\ bestOk = [id |-> 0, result |-> <<>>]
  /\ topSettled = [id |-> 0, ok |-> FALSE]
  /\ catChanged = FALSE
  /\ regLog = <<>>
  /\ selectedContent = NoContent
  /\ caption = <<>>
  /\ sharing = FALSE
  /\ shareResult = NoResult
  /\ style = DEFAULT_STYLE
  /\ shares = <<>>
  /\ lastUpdate = NoUpdate
  /\ card = NoCard

\* window.localStorage without the two items
EmptyStorage == [token |-> Null, user |-> Null]

\* { loading: false, error: "", success: "" }
Idle == [loading |-> FALSE, error |-> "", success |-> ""]

\* Boolean(localStorage.getItem("token")), as syncAuthState computes it
SyncAuthState(storage) == storage.token \notin {Null, ""}

\* the state after AppShell has mounted at route p over the storage given:
\* the useState initialiser, then the effect's syncAuthState()
MountShell(storage, p) ==
  /\ localStorage = storage
  /\ isAuthed = SyncAuthState(storage)
  /\ path = p
  /\ status = Idle
  /\ authCalls = <<>>

Init == Mount("first") /\ MountShell(EmptyStorage, "/")

\* StoryGenerator.handleCategoryChange(c), and the render that passes the
\* new `category` prop
SetCategory(c) ==
  /\ c # category
  /\ animKey < MaxCatChanges
  /\ LET eff == Effect(c, search, Flushed.prevCategory, Flushed.timers)
     IN  /\ category' = c
         /\ prevCategory' = eff.prevCategory
         /\ animKey' = IF eff.changed THEN animKey + 1 ELSE animKey
         /\ pendingReset' = (Flushed.resetQueued \/ eff.resetQueued)
         /\ timers' = eff.timers
  /\ pendingEffect' = FALSE
  /\ catChanged' = TRUE
  /\ selectedContent' = NoContent
  /\ caption' = <<>>
  /\ shareResult' = NoResult
  /\ UNCHANGED <<shown, resps, search, revealed, reqId, inflight, rafPending,
                 uncaught, calls, regLog, sharing, style, shares, lastUpdate,
                 generator, shareLog, card,
                 shell>>

\* onChange={(e) => setSearch(e.target.value)}
ChangeSearch(t) ==
  /\ t # search
  /\ LET eff == Effect(category, t, Flushed.prevCategory, Flushed.timers)
     IN  /\ search' = t
         /\ prevCategory' = eff.prevCategory
         /\ animKey' = IF eff.changed THEN animKey + 1 ELSE animKey
         /\ pendingReset' = eff.resetQueued
         /\ timers' = eff.timers
  /\ pendingEffect' = FALSE
  /\ UNCHANGED <<shown, resps, category, revealed, reqId, inflight, rafPending,
                 uncaught, calls, catChanged, regLog, story>>

\* React renders the setSearch("") the effect queued
RenderReset ==
  /\ pendingReset
  /\ search' = <<>>
  /\ pendingReset' = FALSE
  /\ pendingEffect' = TRUE
  /\ UNCHANGED <<shown, resps, category, revealed, animKey, prevCategory, reqId,
                 timers, inflight, rafPending, uncaught, calls, catChanged, regLog, story>>

\* React runs the effect of a committed render: cleanup, then the body
FlushEffect ==
  /\ pendingEffect
  /\ LET eff == Effect(category, search, prevCategory, timers)
     IN  /\ prevCategory' = eff.prevCategory
         /\ animKey' = IF eff.changed THEN animKey + 1 ELSE animKey
         /\ pendingReset' = eff.resetQueued
         /\ timers' = eff.timers
  /\ pendingEffect' = FALSE
  /\ UNCHANGED <<shown, resps, category, search, revealed, reqId, inflight,
                 rafPending, uncaught, calls, catChanged, regLog, story>>

\* the clock advances by the debounce delay
Tick ==
  /\ ~pendingReset
  /\ ~pendingEffect
  /\ \E t \in timers : ~Due(t)
  /\ timers' = {IF Due(t) THEN t ELSE [t EXCEPT !.elapsed = @ + DebounceDelay] : t \in timers}
  /\ UNCHANGED <<shown, resps, category, search, revealed, animKey, prevCategory,
                 reqId, pendingReset, pendingEffect, inflight, rafPending,
                 uncaught, calls, catChanged, regLog, story>>

\* a fetchContent that leaves the error of the previous request in place
FetchContentKeepsError(cat, searchQuery) ==
  LET id      == NextId(reqId)
      params  == Params(searchQuery)
      call    == GetContentByCategory(cat, params)
      started == call.kind = "return" /\ call.type = "promise"
  IN  /\ reqId' = id
      /\ loading' = TRUE
      /\ revealed' = FALSE
      /\ UNCHANGED error
      /\ items' = <<>>
      /\ inflight' = IF started
                     THEN inflight \cup {[id |-> id, cat |-> cat, params |-> params]}
                     ELSE inflight
      /\ uncaught' = IF started THEN uncaught ELSE uncaught + 1
      /\ calls' = Append(calls, id)
      /\ catChanged' = FALSE

\* const fetchContent = (cat, searchQuery = "") => { ... } up to the .then/.catch
FetchContent(cat, searchQuery) ==
  LET id      == NextId(reqId)
      params  == Params(searchQuery)
      call    == GetContentByCategory(cat, params)
      started == call.kind = "return" /\ call.type = "promise"
  IN  /\ reqId' = id
      /\ loading' = TRUE
      /\ revealed' = FALSE
      /\ error' = Null
      /\ items' = <<>>
      /\ inflight' = IF started
                     THEN inflight \cup {[id |-> id, cat |-> cat, params |-> params]}
                     ELSE inflight
      /\ uncaught' = IF started THEN uncaught ELSE uncaught + 1
      /\ calls' = Append(calls, id)
      /\ catChanged' = FALSE

\* a due timer runs its callback: fetchContent(category, search.trim())
FireTimer(t) ==
  /\ Due(t)
  /\ Len(calls) < MaxReq
  /\ timers' = timers \ {t}
  /\ FetchContent(t.cat, Trim(t.search))
  /\ UNCHANGED <<resps, category, search, animKey, prevCategory, pendingReset,
                 pendingEffect, rafPending, regLog, story>>

\* the record of a response to request r
Settle(r, ok, result, applied) ==
  /\ lastResp' = [id |-> r.id, ok |-> ok, result |-> result]
  /\ hiApplied' = IF applied THEN Max(hiApplied, r.id) ELSE hiApplied
  /\ bestOk' = IF ok /\ r.id > bestOk.id THEN [id |-> r.id, result |-> result]
               ELSE bestOk
  /\ topSettled' = IF r.id > topSettled.id THEN [id |-> r.id, ok |-> ok]
                   ELSE topSettled

\* .then((res) => { ... }): the fetch of request r resolves with `res`
Resolve(r, res) ==
  /\ inflight' = inflight \ {r}
  /\ Settle(r, TRUE, ResponseItems(res), ~IsStale(r.id, reqId))
  /\ IF IsStale(r.id, reqId)
     THEN UNCHANGED <<items, loading, error, rafPending>>
     ELSE /\ items' = DataOrEmpty(res)
          /\ loading' = FALSE
          /\ rafPending' = rafPending + 1
          /\ UNCHANGED error
  /\ UNCHANGED <<category, search, revealed, animKey, prevCategory, reqId, timers,
                 pendingReset, pendingEffect, uncaught, calls, catChanged, regLog, story>>

\* a catch handler that forgets setLoading(false)
RejectKeepsLoading(r) ==
  /\ inflight' = inflight \ {r}
  /\ Settle(r, FALSE, <<>>, ~IsStale(r.id, reqId))
  /\ IF IsStale(r.id, reqId)
     THEN UNCHANGED <<items, loading, error>>
     ELSE /\ items' = <<>>
          /\ error' = LoadError
          /\ UNCHANGED loading
  /\ UNCHANGED <<category, search, revealed, animKey, prevCategory, reqId, timers,
                 pendingReset, pendingEffect, rafPending, uncaught, calls,
                 catChanged, regLog, story>>

\* .catch(() => { ... }): the fetch of request r rejects
Reject(r) ==
  /\ inflight' = inflight \ {r}
  /\ Settle(r, FALSE, <<>>, ~IsStale(r.id, reqId))
  /\ IF IsStale(r.id, reqId)
     THEN UNCHANGED <<items, loading, error>>
     ELSE /\ items' = <<>>
          /\ error' = LoadError
          /\ loading' = FALSE
  /\ UNCHANGED <<category, search, revealed, animKey, prevCategory, reqId, timers,
                 pendingReset, pendingEffect, rafPending, uncaught, calls,
                 catChanged, regLog, story>>

\* requestAnimationFrame(() => setRevealed(true))
AnimationFrame ==
  /\ rafPending > 0
  /\ rafPending' = rafPending - 1
  /\ revealed' = TRUE
  /\ UNCHANGED <<shown, resps, category, search, animKey, prevCategory, reqId,
                 timers, pendingReset, pendingEffect, inflight, uncaught, calls,
                 catChanged, regLog, story>>

\* the user picks another category
CategoryChange == \E c \in SelectorCategories : SetCategory(c)

\* the user edits the search box
TextEdit == \E t \in Texts : ChangeSearch(t)

\* a timer that is due fires
TimerFires == \E t \in timers : FireTimer(t)

\* the content API answers a request
FetchResolves == \E r \in inflight : \E res \in Bodies(r) : Resolve(r, res)

\* the fetch of a request fails
FetchRejects == \E r \in inflight : Reject(r)

Next ==
  \/ CategoryChange
  \/ TextEdit
  \/ RenderReset
  \/ FlushEffect
  \/ Tick
  \/ TimerFires
  \/ FetchResolves
  \/ FetchRejects
  \/ AnimationFrame

Spec == Init /\ [][Next]_vars

-----------------------------------------------------------------------------
\* The category registry exercised on its own: getContentByCategory is called
\* with every category key and parameter object of the input sets.

CategoryInputs ==
  DOMAIN CATEGORY_FETCHERS \cup DOMAIN ObjectPrototype \cup {"podcasts", ""}

\* {} (the default), { limit: 5 } and { limit: 5, search: q }
ParamInputs == {<<>>} \cup {Params(Trim(t)) : t \in Texts}

CallGetContentByCategory(c, p) ==
  /\ Len(regLog) < MaxCalls
  /\ regLog' = Append(regLog, [category |-> c, params |-> p,
                               result |-> GetContentByCategory(c, p)])
  /\ UNCHANGED <<shown, resps, category, search, revealed, animKey, prevCategory,
                 reqId, timers, pendingReset, pendingEffect, inflight, rafPending,
                 uncaught, calls, catChanged, story>>

NextRegistry ==
  \E c \in CategoryInputs : \E p \in ParamInputs : CallGetContentByCategory(c, p)

SpecRegistry == Init /\ [][NextRegistry]_vars

-----------------------------------------------------------------------------
\* JavaScript values of content fields and props.  A string is written as
\* itself and a number as its decimal digits, so that "0" is the number 0.

\* the values Boolean() maps to false: undefined, null, "" and 0
JsFalsy == {Undefined, Null, "", "0"}

Boolean(v) == v \notin JsFalsy

\* a || b
OrElse(a, b) == IF Boolean(a) THEN a ELSE b

\* v != null
NotNullish(v) == v \notin {Undefined, Null}

\* const { font = "default", ... } = customStyle: the default of a destructuring
Default(v, d) == IF v = Undefined THEN d ELSE v

\* a rendered string as the sequence of its parts; "" has no part
TextOf(v) == IF Boolean(v) THEN <<v>> ELSE <<>>

\* Array.prototype.filter(Boolean)
FilterBoolean(list) == SelectSeq(list, Boolean)

\* Array.prototype.join(sep)
RECURSIVE Join(_, _)
Join(list, sep) ==
  IF list = <<>> THEN <<>>
  ELSE IF Len(list) = 1 THEN <<list[1]>>
  ELSE <<list[1], sep>> \o Join(Tail(list), sep)

\* the string made of a sequence of characters
RECURSIVE Str(_)
Str(chars) == IF chars = <<>> THEN "" ELSE Head(chars) \o Str(Tail(chars))

-----------------------------------------------------------------------------
\* Content items, as the content API returns them.

ContentFields ==
  {"id", "title", "name", "subtitle", "year", "director", "artist", "platform",
   "author", "city", "country", "poster", "cover", "image", "image_url", "type",
   "season", "episode", "difficulty", "totalPages", "weather", "temperature",
   "dominantColor"}

\* {}: reading a field an object does not have gives undefined
EmptyItem == [f \in ContentFields |-> Undefined]

\* { ...item, ...fields }
With(item, fields) ==
  [f \in ContentFields |-> IF f \in DOMAIN fields THEN fields[f] ELSE item[f]]

Movie ==
  With(EmptyItem, [id |-> "m1", title |-> "Heat", year |-> "1995", director |-> "Mann",
                   poster |-> "heat.jpg", type |-> "movie", dominantColor |-> "#336699"])

Show ==
  With(EmptyItem, [id |-> "m2", title |-> "Dark", year |-> "2017", type |-> "tv",
                   season |-> "1", episode |-> "0", image |-> "dark.jpg"])

Album ==
  With(EmptyItem, [id |-> "a1", title |-> "Kid A", artist |-> "Radiohead",
                   cover |-> "kida.jpg"])

Game ==
  With(EmptyItem, [id |-> "g1", name |-> "Hades", platform |-> "PC",
                   cover |-> "hades.jpg", difficulty |-> "hard"])

Book ==
  With(EmptyItem, [id |-> "b1", title |-> "Dune", author |-> "Herbert",
                   totalPages |-> "412"])

Place ==
  With(EmptyItem, [id |-> "l1", name |-> "Fuji", city |-> "Fujinomiya",
                   country |-> "Japan", image |-> "fuji.jpg", weather |-> "snow",
                   temperature |-> "0"])

\* an object that carries the fields of every category
Hybrid ==
  With(EmptyItem, [id |-> "x1", title |-> "Mix", subtitle |-> "sub", year |-> "2001",
                   director |-> "Dir", artist |-> "Art", platform |-> "Web",
                   author |-> "Aut", city |-> "Rome", country |-> "Italy",
                   poster |-> "p.jpg", cover |-> "c.jpg", image |-> "i.jpg",
                   image_url |-> "u.jpg", type |-> "tv", season |-> "2",
                   episode |-> "5", difficulty |-> "easy", totalPages |-> "90",
                   weather |-> "rain", temperature |-> "18",
                   dominantColor |-> "#cc3300"])

BaseItems == {Movie, Show, Album, Game, Book, Place, Hybrid, EmptyItem}

\* the values one field of an item is varied over
FieldValues == {Undefined, Null, "", "0", "v"}

\* the base items, and each with one field changed
ContentItems ==
  BaseItems \cup
  {[b EXCEPT ![f] = v] :
     b \in BaseItems, f \in ContentFields \ {"id", "dominantColor"}, v \in FieldValues}

-----------------------------------------------------------------------------
\* Colours #RRGGBB.

HexDigits == <<"0", "1", "2", "3", "4", "5", "6", "7", "8", "9",
               "a", "b", "c", "d", "e", "f">>

HexDigitsUpper == <<"0", "1", "2", "3", "4", "5", "6", "7", "8", "9",
                    "A", "B", "C", "D", "E", "F">>

\* the two hex digits of a channel value 0..255
Hex2(n, digits) == <<digits[(n \div 16) + 1], digits[(n % 16) + 1]>>

\* the characters of the colour with channels t, in lower or upper case
ColourChars(t, upper) ==
  LET d == IF upper THEN HexDigitsUpper ELSE HexDigits
  IN  <<"#">> \o Hex2(t.r, d) \o Hex2(t.g, d) \o Hex2(t.b, d)

\* the channels of the eight colours of BG_COLORS
OfferedChannels ==
  {[r |-> 26, g |-> 26, b |-> 46], [r |-> 15, g |-> 32, b |-> 39],
   [r |-> 45, g |-> 27, b |-> 105], [r |-> 27, g |-> 67, b |-> 50],
   [r |-> 127, g |-> 29, b |-> 29], [r |-> 120, g |-> 53, b |-> 15],
   [r |-> 30, g |-> 30, b |-> 30], [r |-> 245, g |-> 240, b |-> 232]}

\* channels around the luminance threshold, black and white
EdgeChannels ==
  {[r |-> 160, g |-> 160, b |-> 160], [r |-> 160, g |-> 160, b |-> 161],
   [r |-> 159, g |-> 160, b |-> 160], [r |-> 161, g |-> 161, b |-> 161],
   [r |-> 0, g |-> 0, b |-> 0], [r |-> 255, g |-> 255, b |-> 255],
   [r |-> 255, g |-> 0, b |-> 255], [r |-> 0, g |-> 255, b |-> 0]}

Channels == OfferedChannels \cup EdgeChannels

\* the character sequences of the colours used
ColourSeqs == {ColourChars(t, u) : t \in Channels, u \in BOOLEAN}

\* the colour strings used
Colours == {Str(c) : c \in ColourSeqs}

\* the characters of a colour string
Chars(hex) == CHOOSE c \in ColourSeqs : Str(c) = hex

\* String.prototype.replace(ch, ""): the first occurrence of ch is removed
RECURSIVE RemoveFirst(_, _)
RemoveFirst(chars, ch) ==
  IF chars = <<>> THEN <<>>
  ELSE IF Head(chars) = ch THEN Tail(chars)
  ELSE <<Head(chars)>> \o RemoveFirst(Tail(chars), ch)

\* String.prototype.substring(from, to), 0-based, to exclusive
Substring(chars, from, to) ==
  SubSeq(chars, from + 1, IF to > Len(chars) THEN Len(chars) ELSE to)

\* the value of a hex digit of either case
HexValue(ch) ==
  IF \E i \in 1..16 : HexDigits[i] = ch
  THEN (CHOOSE i \in 1..16 : HexDigits[i] = ch) - 1
  ELSE (CHOOSE i \in 1..16 : HexDigitsUpper[i] = ch) - 1

\* parseInt(s, 16) of a string of hex digits
RECURSIVE ParseInt16(_)
ParseInt16(chars) ==
  IF chars = <<>> THEN 0
  ELSE ParseInt16(SubSeq(chars, 1, Len(chars) - 1)) * 16 + HexValue(chars[Len(chars)])

\* x / d > k, the quotient taken exactly
QuotientAbove(x, d, k) == (x \div d > k) \/ (x \div d = k /\ x % d > 0)

\* a luminance test that drops the fraction of the quotient
IsLightColorFloor(hex) ==
  LET c == RemoveFirst(Chars(hex), "#")
      r == ParseInt16(Substring(c, 0, 2))
      g == ParseInt16(Substring(c, 2, 4))
      b == ParseInt16(Substring(c, 4, 6))
  IN  (r * 299 + g * 587 + b * 114) \div 1000 > 160

\* function isLightColor(hex)
IsLightColor(hex) ==
  LET c == RemoveFirst(Chars(hex), "#")
      r == ParseInt16(Substring(c, 0, 2))
      g == ParseInt16(Substring(c, 2, 4))
      b == ParseInt16(Substring(c, 4, 6))
  IN  QuotientAbove(r * 299 + g * 587 + b * 114, 1000, 160)

-----------------------------------------------------------------------------
\* StoryCard (the component with getSubtitle, getContentImage and the badges).

\* the keys of CATEGORIES in StoryGenerator: the categories a card is rendered for
CATEGORIES == {"cinema", "music", "games", "books", "travel"}

CATEGORY_LABELS ==
  [c \in CATEGORIES |->
     CASE c = "cinema" -> "NOW WATCHING"
       [] c = "music"  -> "NOW LISTENING"
       [] c = "games"  -> "NOW PLAYING"
       [] c = "books"  -> "NOW READING"
       [] c = "travel" -> "NOW EXPLORING"]

CATEGORY_GRADIENTS ==
  [c \in CATEGORIES |->
     CASE c = "cinema" -> "linear-gradient(145deg, #4a0e8f, #7b2ff7, #c471f5)"
       [] c = "music"  -> "linear-gradient(145deg, #0f2027, #2c5364, #203a43)"
       [] c = "games"  -> "linear-gradient(145deg, #1a1a2e, #16213e, #0f3460)"
       [] c = "books"  -> "linear-gradient(145deg, #2d1b69, #6b3fa0, #8e44ad)"
       [] c = "travel" -> "linear-gradient(145deg, #134e5e, #71b280, #2ecc71)"]

\* the separators of the joined subtitles
Dot == "  ·  "
Comma == ", "

\* content?.field
Field(content, f) == IF content = NoContent THEN Undefined ELSE content[f]

\* function getSecondary(category, item) of ContentSelector
GetSecondary(cat, item) ==
  CASE cat = "cinema" -> Join(FilterBoolean(<<item.director, item.year>>), Dot)
    [] cat = "music"  -> TextOf(OrElse(item.artist, ""))
    [] cat = "games"  -> TextOf(OrElse(item.platform, ""))
    [] cat = "books"  -> TextOf(OrElse(item.author, ""))
    [] cat = "travel" -> Join(FilterBoolean(<<item.city, item.country>>), Comma)
    [] OTHER          -> <<>>

\* function getSubtitle(category, content) of StoryCard
GetSubtitle(cat, content) ==
  IF content = NoContent THEN <<>>
  ELSE CASE cat = "cinema" -> Join(FilterBoolean(<<content.year, content.director>>), Dot)
         [] cat = "music"  -> TextOf(OrElse(content.artist, ""))
         [] cat = "games"  -> TextOf(OrElse(content.platform, ""))
         [] cat = "books"  -> TextOf(OrElse(content.author, ""))
         [] cat = "travel" -> Join(FilterBoolean(<<content.city, content.country>>), Comma)
         [] OTHER          -> <<>>

\* function getContentImage(category, content) of StoryCard
GetContentImage(cat, content) ==
  IF content = NoContent THEN Null
  ELSE CASE cat = "cinema" -> OrElse(content.poster, content.image)
         [] cat = "music"  -> OrElse(content.cover, content.image)
         [] cat = "games"  -> OrElse(content.cover, content.image)
         [] cat = "books"  -> OrElse(content.cover, content.image)
         [] cat = "travel" -> content.image
         [] OTHER          -> content.image

\* {image ? <img src={image} /> : <placeholder />}
ImageShown(image) == IF Boolean(image) THEN image ELSE Undefined

\* a background that lets the dominant colour win over the explicit one
BgStyleDominantFirst(bgColor, dominantColor, cat) ==
  IF Boolean(dominantColor) THEN [kind |-> "dominant", of |-> dominantColor]
  ELSE IF Boolean(bgColor) THEN [kind |-> "explicit", of |-> bgColor]
  ELSE [kind |-> "category", of |-> CATEGORY_GRADIENTS[cat]]

\* const bgStyle = useMemo(() => { ... }, [dominantColor, category, bgColor])
BgStyle(bgColor, dominantColor, cat) ==
  IF Boolean(bgColor) THEN [kind |-> "explicit", of |-> bgColor]
  ELSE IF Boolean(dominantColor) THEN [kind |-> "dominant", of |-> dominantColor]
  ELSE [kind |-> "category", of |-> CATEGORY_GRADIENTS[cat]]

DarkText == "#1d1b22"
LightText == "#fff"

\* const isLight = bgColor && isLightColor(bgColor);
\* const textColor = isLight ? "#1d1b22" : "#fff"
TextColor(bgColor) ==
  IF Boolean(bgColor) /\ IsLightColor(bgColor) THEN DarkText ELSE LightText

\* const showEpisodeBadge = category === "cinema" && content?.type === "tv" && ...
ShowEpisodeBadge(cat, content) ==
  /\ cat = "cinema"
  /\ Field(content, "type") = "tv"
  /\ NotNullish(Field(content, "season"))
  /\ NotNullish(Field(content, "episode"))

\* category === "games" && content?.difficulty
ShowDifficultyBadge(cat, content) ==
  cat = "games" /\ Boolean(Field(content, "difficulty"))

\* a page badge shown whatever the category
ShowPagesBadgeAnyCategory(cat, content) == Boolean(Field(content, "totalPages"))

\* category === "books" && content?.totalPages
ShowPagesBadge(cat, content) ==
  cat = "books" /\ Boolean(Field(content, "totalPages"))

\* category === "travel" && content?.weather
ShowWeatherBadge(cat, content) ==
  cat = "travel" /\ Boolean(Field(content, "weather"))

\* the badges after the category label, in the order of the JSX
Badges(cat, content) ==
  (IF ShowEpisodeBadge(cat, content)
   THEN <<[kind |-> "episode",
           text |-> <<"S", content.season, " E", content.episode>>]>>
   ELSE <<>>) \o
  (IF ShowDifficultyBadge(cat, content)
   THEN <<[kind |-> "difficulty", text |-> <<content.difficulty>>]>>
   ELSE <<>>) \o
  (IF ShowPagesBadge(cat, content)
   THEN <<[kind |-> "pages", text |-> <<content.totalPages, "p">>]>>
   ELSE <<>>) \o
  (IF ShowWeatherBadge(cat, content)
   THEN <<[kind |-> "weather",
           text |-> <<content.weather, " ">> \o
                    (IF NotNullish(content.temperature)
                     THEN <<content.temperature, "°">> ELSE <<>>)]>>
   ELSE <<>>)

\* a caption prop that is undefined
NoCaption == [defined |-> FALSE, text |-> <<>>]

\* a caption prop that is the string `text`
CaptionOf(text) == [defined |-> TRUE, text |-> text]

\* a card that shows a caption only when it has a character other than a space
CaptionShownIfTrimmed(cap) == cap.defined /\ Truthy(Trim(cap.text))

\* {caption && <p className="story-card__caption">"{caption}"</p>}
CaptionShown(cap) == cap.defined /\ Truthy(cap.text)

\* export default function StoryCard({ category, content, dominantColor,
\* caption, customStyle }): what the card shows
StoryCard(props) ==
  LET cat       == props.category
      content   == props.content
      bgColor   == Default(props.customStyle.bgColor, Null)
  IN  [label      |-> CATEGORY_LABELS[cat],
       title      |-> OrElse(OrElse(Field(content, "title"), Field(content, "name")),
                             "Untitled"),
       subtitle   |-> GetSubtitle(cat, content),
       image      |-> ImageShown(GetContentImage(cat, content)),
       background |-> BgStyle(bgColor, props.dominantColor, cat),
       textColor  |-> TextColor(bgColor),
       font       |-> Default(props.customStyle.font, "default"),
       texture    |-> Default(props.customStyle.bgTexture, "none"),
       textAlign  |-> Default(props.customStyle.textAlign, "left"),
       titleSize  |-> Default(props.customStyle.titleSize, "normal"),
       layout     |-> Default(props.customStyle.cardLayout, "default"),
       badges     |-> Badges(cat, content),
       caption    |-> IF CaptionShown(props.caption) THEN props.caption.text ELSE <<>>,
       hasCaption |-> CaptionShown(props.caption)]

\* the second StoryCard of the source (components/stories/StoryCard.jsx),
\* which takes image and subtitle from whichever field the item has
StoryCardSniffing(props) ==
  LET cat       == props.category
      content   == props.content
      image     == OrElse(OrElse(Field(content, "image"), Field(content, "poster")),
                          Field(content, "image_url"))
      subtitle  == OrElse(OrElse(OrElse(Field(content, "subtitle"),
                                        Field(content, "year")),
                                 Field(content, "director")),
                          Field(content, "artist"))
      bgColor   == props.customStyle.bgColor
  IN  [label      |-> CATEGORY_LABELS[cat],
       title      |-> OrElse(OrElse(Field(content, "title"), Field(content, "name")),
                             "Untitled"),
       subtitle   |-> TextOf(subtitle),
       image      |-> ImageShown(image),
       background |-> IF Boolean(bgColor) THEN [kind |-> "explicit", of |-> bgColor]
                      ELSE [kind |-> "fixed",
                            of |-> "linear-gradient(145deg, #4a0e8f, #7b2ff7)"],
       textColor  |-> Undefined,
       font       |-> props.customStyle.font,
       texture    |-> "none",
       textAlign  |-> OrElse(props.customStyle.textAlign, "left"),
       titleSize  |-> IF props.customStyle.titleSize \in TITLE_SIZES
                      THEN props.customStyle.titleSize ELSE "normal",
       layout     |-> OrElse(props.customStyle.cardLayout, "default"),
       badges     |-> <<>>,
       caption    |-> IF CaptionShown(props.caption) THEN props.caption.text ELSE <<>>,
       hasCaption |-> CaptionShown(props.caption)]

-----------------------------------------------------------------------------
\* The card exercised on its own: it is rendered once, with props of the
\* input set.

\* the background colours passed in customStyle: none, "" and the colours
BgInputs == {Undefined, Null, ""} \cup Colours

\* the dominant colours passed
DominantInputs == {Undefined, Null, "", "#336699"}

\* the captions passed: undefined, "", " ", "a"
CaptionInputs == {NoCaption, CaptionOf(<<>>), CaptionOf(<<" ">>), CaptionOf(<<"a">>)}

CardProps(cat, content, dominantColor, cap, bgColor) ==
  [category |-> cat, content |-> content, dominantColor |-> dominantColor,
   caption |-> cap, customStyle |-> [DEFAULT_STYLE EXCEPT !.bgColor = bgColor]]

\* every item under every category with the default style, and a few items
\* under every category with every background, dominant colour and caption
CardInputs ==
  {CardProps(c, i, i.dominantColor, NoCaption, Null) :
     c \in CATEGORIES, i \in ContentItems} \cup
  {CardProps(c, NoContent, Undefined, NoCaption, Null) : c \in CATEGORIES} \cup
  {CardProps(c, i, d, cap, bg) :
     c \in CATEGORIES, i \in {Movie, Hybrid}, d \in DominantInputs,
     cap \in CaptionInputs, bg \in BgInputs}

\* <StoryCard {...props} /> is rendered
RenderStoryCard(props) ==
  /\ ~card.rendered
  /\ card' = [rendered |-> TRUE, variant |-> "typed", props |-> props,
              out |-> StoryCard(props)]
  /\ UNCHANGED <<category, selector, regLog, selectedContent, caption, sharing,
                 shareResult, style, shares, lastUpdate, generator, shareLog,
                 shell>>

\* the second StoryCard is rendered
RenderStoryCardSniffing(props) ==
  /\ ~card.rendered
  /\ card' = [rendered |-> TRUE, variant |-> "sniffing", props |-> props,
              out |-> StoryCardSniffing(props)]
  /\ UNCHANGED <<category, selector, regLog, selectedContent, caption, sharing,
                 shareResult, style, shares, lastUpdate, generator, shareLog,
                 shell>>

RenderTyped == \E p \in CardInputs : RenderStoryCard(p)

RenderSniffing == \E p \in CardInputs : RenderStoryCardSniffing(p)

NextCard == RenderTyped \/ RenderSniffing

SpecCard == Init /\ [][NextCard]_vars

-----------------------------------------------------------------------------
\* StoryGenerator: category buttons, selection, caption, style, preview and
\* share, for either of the two components.  The ContentSelector it renders is
\* left out here: onSelect may hand over any of the items below.

\* the items the selector hands to onSelect
SelectableItems == {Movie, Album}

\* err.response?.data?.message of a rejected createShare: no response or no
\* message, an empty message, a message
ShareErrors == {Undefined, "", "server message"}

\* maxLength={500}
CaptionMaxLength == 500

\* a run of letters, one short of the longest caption the textarea takes
Run == "a.."

\* caption.length, a run counted at its full length
RECURSIVE Length(_)
Length(text) ==
  IF text = <<>> THEN 0
  ELSE (IF Head(text) = Run THEN CaptionMaxLength - 1 ELSE 1) + Length(Tail(text))

\* the texts typed into the caption box: those of the search box, and texts
\* of 500 and of 501 characters
CaptionTexts == Texts \cup {<<Run, "a">>, <<Run, "a", "a">>}

\* the customizer's controls clicked while composing a story
StoryControls == {[key |-> "font", value |-> "serif"],
                  [key |-> "font", value |-> "default"]}

\* caption={caption || undefined}
CaptionProp(text) == IF Truthy(text) THEN CaptionOf(text) ELSE NoCaption

\* caption: caption.trim() || undefined
DraftCaption(text) == CaptionProp(Trim(text))

\* the body handed to createShare by the first component
Draft == [category |-> category, contentId |-> selectedContent.id,
          caption |-> DraftCaption(caption)]

\* the body handed to createShare by the second component
DraftSecond == [category |-> category, content |-> selectedContent,
                style |-> style, caption |-> CaptionOf(caption)]

\* <StoryCard category={category} content={selectedContent}
\*   dominantColor={selectedContent.dominantColor}
\*   caption={caption || undefined} customStyle={style} />
\* (the second component passes no dominantColor)
Preview ==
  StoryCard([category |-> category, content |-> selectedContent,
             dominantColor |-> IF generator = "first"
                               THEN selectedContent.dominantColor
                               ELSE Undefined,
             caption |-> CaptionProp(caption), customStyle |-> style])

\* const handleCategoryChange = (key) => { ... }
HandleCategoryChange(key) ==
  /\ category' = key
  /\ selectedContent' = NoContent
  /\ caption' = <<>>
  /\ shareResult' = NoResult
  /\ UNCHANGED <<selector, regLog, sharing, style, shares, lastUpdate,
                 generator, shareLog, card,
                 shell>>

\* onSelect={setSelectedContent}; onSelect={handleSelectContent}
SelectContent(item) ==
  /\ selectedContent' = item
  /\ UNCHANGED <<category, selector, regLog, caption, sharing, shareResult, style,
                 shares, lastUpdate, generator, shareLog, card,
                 shell>>

\* the caption textarea of the first component: rendered once content is
\* selected, and the browser keeps its value within maxLength
CaptionTextarea(text) == selectedContent # NoContent /\ Length(text) <= CaptionMaxLength

\* the caption textarea of the second component: always rendered, no maxLength
CaptionTextareaSecond(text) == TRUE

\* onChange={(e) => setCaption(e.target.value)}
ChangeCaption(text) ==
  /\ IF generator = "first" THEN CaptionTextarea(text) ELSE CaptionTextareaSecond(text)
  /\ text # caption
  /\ caption' = text
  /\ UNCHANGED <<category, selector, regLog, selectedContent, sharing, shareResult,
                 style, shares, lastUpdate, generator, shareLog, card,
                 shell>>

\* handleShare without its first line
HandleShareUnguarded ==
  /\ sharing' = TRUE
  /\ shareResult' = NoResult
  /\ shares' = Append(shares, [category |-> category,
                               contentId |-> Field(selectedContent, "id"),
                               caption |-> DraftCaption(caption)])
  /\ shareLog' = "called"
  /\ UNCHANGED <<category, selector, regLog, selectedContent, caption, style,
                 lastUpdate, generator, card,
                 shell>>

\* const handleShare = useCallback(async () => { ... }) of the first
\* component, up to the await
HandleShare ==
  /\ IF selectedContent = NoContent
     THEN /\ shareLog' = "refused"
          /\ UNCHANGED <<sharing, shareResult, shares>>
     ELSE /\ sharing' = TRUE
          /\ shareResult' = NoResult
          /\ shares' = Append(shares, Draft)
          /\ shareLog' = "called"
  /\ UNCHANGED <<category, selector, regLog, selectedContent, caption, style,
                 lastUpdate, generator, card,
                 shell>>

\* const handleShare = async () => { ... } of the second component, up to
\* the await
HandleShareSecond ==
  /\ IF selectedContent = NoContent
     THEN /\ shareLog' = "refused"
          /\ UNCHANGED <<sharing, shareResult, shares>>
     ELSE /\ sharing' = TRUE
          /\ shares' = Append(shares, DraftSecond)
          /\ shareLog' = "called"
          /\ UNCHANGED shareResult
  /\ UNCHANGED <<category, selector, regLog, selectedContent, caption, style,
                 lastUpdate, generator, card,
                 shell>>

\* the sequence s without its i-th element
Without(s, i) == SubSeq(s, 1, i - 1) \o SubSeq(s, i + 1, Len(s))

\* what setShareResult receives once createShare has resolved
Succeeded(d) ==
  IF generator = "first" THEN [type |-> "success", data |-> d]
  ELSE [type |-> "success"]

\* what setShareResult receives once createShare has rejected:
\* err.response?.data?.message || "Failed to share" in the first component,
\* a fixed message in the second
Failed(message) ==
  IF generator = "first"
  THEN [type |-> "error", message |-> OrElse(message, "Failed to share")]
  ELSE [type |-> "error", message |-> "Failed to share story"]

\* the i-th createShare call resolves: setShareResult(...); finally
\* setSharing(false)
ShareResolves(i) ==
  /\ shares' = Without(shares, i)
  /\ shareResult' = Succeeded(shares[i])
  /\ sharing' = FALSE
  /\ shareLog' = "resolved"
  /\ UNCHANGED <<category, selector, regLog, selectedContent, caption, style,
                 lastUpdate, generator, card,
                 shell>>

\* the i-th createShare call rejects: the catch block, then finally
\* setSharing(false)
ShareRejects(i, message) ==
  /\ shares' = Without(shares, i)
  /\ shareResult' = Failed(message)
  /\ sharing' = FALSE
  /\ shareLog' = "rejected"
  /\ UNCHANGED <<category, selector, regLog, selectedContent, caption, style,
                 lastUpdate, generator, card,
                 shell>>

\* the handleShare of the component that is mounted
Submit == IF generator = "first" THEN HandleShare ELSE HandleShareSecond

\* the share button were it never disabled
ShareButtonNeverDisabled == selectedContent # NoContent

\* the share button: rendered once content is selected, disabled={sharing}
ShareButtonEnabled == selectedContent # NoContent /\ ~sharing

\* the customizer: rendered once content is selected in the first component,
\* always in the second
CustomizerShown == generator = "second" \/ selectedContent # NoContent

ClickCategory == \E key \in CATEGORIES : HandleCategoryChange(key)

ClickItem == \E item \in SelectableItems : SelectContent(item)

EditCaption == \E text \in CaptionTexts : ChangeCaption(text)

ClickShare == ShareButtonEnabled /\ Submit

\* handleShare is called while nothing is selected
ShareNothing == selectedContent = NoContent /\ Submit

ShareSucceeds == \E i \in 1..Len(shares) : ShareResolves(i)

ShareFails == \E i \in 1..Len(shares) : \E m \in ShareErrors : ShareRejects(i, m)

InitStory == (\E g \in Generators : Mount(g)) /\ MountShell(EmptyStorage, "/")

\* The first StoryGenerator with the ContentSelector it renders: the items
\* that can be clicked are the items the selector shows.

\* the category buttons clicked
ComposerCategories == {"cinema", "music"}

PickCategory == \E c \in ComposerCategories : SetCategory(c)

\* onClick={() => onSelect(item)} of an item of the list
ClickShown == \E i \in 1..Len(items) : SelectContent(items[i])

NextSelect ==
  \/ PickCategory
  \/ FlushEffect
  \/ TimerFires
  \/ FetchResolves
  \/ FetchRejects
  \/ AnimationFrame
  \/ ClickShown

SpecSelect == Init /\ [][NextSelect]_vars

-----------------------------------------------------------------------------
\* App.jsx, Login.jsx, Register.jsx: the application shell with the two
\* forms, in one window.

\* <Route path=... />
Paths == {"/", "/register", "/stories"}

\* the form a route shows
FormAt(p) == IF p = "/" THEN "login" ELSE IF p = "/register" THEN "register" ELSE "none"

\* response.data of /auth/login and /auth/register: a token with a user, a
\* body without a token, no body
AuthBodies == {[token |-> "t1", user |-> "ada"],
               [token |-> "t2", user |-> "eve"],
               [token |-> Undefined, user |-> "ada"],
               [token |-> Undefined, user |-> Undefined]}

\* what a rejected axios.post carries: error.response?.data?.message,
\* error.response?.data?.error, error.message
AuthFailures == {[message |-> "Invalid credentials", error |-> Undefined,
                  own |-> "Request failed with status code 401"],
                 [message |-> Undefined, error |-> Undefined,
                  own |-> "Network Error"]}

\* the storage a window may find when it loads
StoredAtLoad == {EmptyStorage, [token |-> "t0", user |-> "{username:bob}"]}

\* JSON.stringify(user)
Stringify(user) == "{username:" \o user \o "}"

\* the fallback message of a form
Fallback(form) == IF form = "login" THEN "Login failed." ELSE "Registration failed."

\* the success message of a form
Welcome(form, user) ==
  IF form = "login" THEN "Welcome back, " \o user \o "!"
  ELSE "Account created. You are signed in."

\* error.response?.data?.message || error.response?.data?.error ||
\* error.message || "Login failed."
Message(err, form) ==
  OrElse(err.message, OrElse(err.error, OrElse(err.own, Fallback(form))))

\* the calls, those of the form shown marked as no longer belonging to a
\* mounted form
Unmounted(calls_) == [i \in 1..Len(calls_) |-> [calls_[i] EXCEPT !.live = FALSE]]

\* setStatus of the form that made the call, if it is still mounted
SetStatus(call, value) == IF call.live THEN value ELSE status

\* a <Link to={p}> of the navigation is clicked: Login and Register are
\* rendered while !isAuthed, Stories always
Navigate(p) ==
  /\ p # path
  /\ p = "/stories" \/ ~isAuthed
  /\ path' = p
  /\ status' = Idle
  /\ authCalls' = Unmounted(authCalls)
  /\ UNCHANGED <<category, selector, regLog, composer, localStorage, isAuthed>>

\* const onSubmit = async (data) => { ... } of the form shown, up to the
\* await; the submit button is disabled={status.loading}
OnSubmit ==
  /\ FormAt(path) # "none"
  /\ ~status.loading
  /\ Len(authCalls) < MaxAuthCalls
  /\ status' = [loading |-> TRUE, error |-> "", success |-> ""]
  /\ authCalls' = Append(authCalls, [form |-> FormAt(path), live |-> TRUE])
  /\ UNCHANGED <<category, selector, regLog, composer, localStorage, isAuthed, path>>

\* the i-th axios.post resolves with response.data = data
AuthResolves(i, data) ==
  LET call == authCalls[i]
  IN  /\ authCalls' = Without(authCalls, i)
      /\ IF ~Boolean(data.token) \/ ~Boolean(data.user)
         THEN \* throw new Error("Unexpected response format."), caught below
              /\ status' = SetStatus(call, [loading |-> FALSE,
                                            error |-> "Unexpected response format.",
                                            success |-> ""])
              /\ UNCHANGED localStorage
         ELSE /\ localStorage' = [token |-> data.token, user |-> Stringify(data.user)]
              /\ status' = SetStatus(call, [loading |-> FALSE, error |-> "",
                                            success |-> Welcome(call.form, data.user)])
      /\ UNCHANGED <<category, selector, regLog, composer, isAuthed, path>>

\* the i-th axios.post rejects with err
AuthRejects(i, err) ==
  LET call == authCalls[i]
  IN  /\ authCalls' = Without(authCalls, i)
      /\ status' = SetStatus(call, [loading |-> FALSE,
                                    error |-> Message(err, call.form),
                                    success |-> ""])
      /\ UNCHANGED <<category, selector, regLog, composer, localStorage, isAuthed, path>>

\* const handleLogout = () => { ... }; the button is rendered while
\* isAuthed; the "auth-changed" event it dispatches runs syncAuthState
HandleLogout ==
  /\ isAuthed
  /\ localStorage' = EmptyStorage
  /\ isAuthed' = SyncAuthState(localStorage')
  /\ path' = "/"
  /\ status' = IF path = "/" THEN status ELSE Idle
  /\ authCalls' = IF path = "/" THEN authCalls ELSE Unmounted(authCalls)
  /\ UNCHANGED <<category, selector, regLog, composer>>

ClickLink == \E p \in Paths : Navigate(p)

AuthSucceeds == \E i \in 1..Len(authCalls) : \E data \in AuthBodies : AuthResolves(i, data)

AuthFails == \E i \in 1..Len(authCalls) : \E err \in AuthFailures : AuthRejects(i, err)

\* the window loads at any route, over an empty storage or over the token
\* of an earlier session
InitShell == Mount("first") /\ \E st \in StoredAtLoad : \E p \in Paths : MountShell(st, p)

NextShell ==
  \/ ClickLink
  \/ OnSubmit
  \/ AuthSucceeds
  \/ AuthFails
  \/ HandleLogout

SpecShell == InitShell /\ [][NextShell]_vars

-----------------------------------------------------------------------------
\* The style composer exercised on its own: the customizer's controls are
\* clicked in any order.

\* const updateStyle = (key, value) => { setStyle((prev) => ({ ...prev, [key]: value })) }
UpdateStyle(key, value) ==
  /\ style' = Merge(style, key, value)
  /\ lastUpdate' = [key |-> key, value |-> value]
  /\ UNCHANGED <<category, selector, regLog, selectedContent, caption, sharing,
                 shareResult, shares, generator, shareLog, card,
                 shell>>

\* onClick={() => onChange(field, key)} of one chip or swatch
ClickControl == \E c \in CustomizerControls :
  /\ c.value \in Offered(c.key)
  /\ UpdateStyle(c.key, c.value)

NextStyle == ClickControl

SpecStyle == Init /\ [][NextStyle]_vars

\* a control of the customizer is clicked while a story is composed
ClickStyle == \E c \in StoryControls : CustomizerShown /\ UpdateStyle(c.key, c.value)

NextStory ==
  \/ ClickCategory
  \/ ClickItem
  \/ EditCaption
  \/ ClickStyle
  \/ ClickShare
  \/ ShareNothing
  \/ ShareSucceeds
  \/ ShareFails

SpecStory == InitStory /\ [][NextStory]_vars

-----------------------------------------------------------------------------
\* Properties of the search controller.

\* the requests whose response arrives in this step
Responding == inflight \ inflight'

\* fetchContent is called in this step
Fetching == calls' # calls

\* the timer whose callback runs in this step
Firing == timers \ timers'

\* C1: once a newer request has been issued, the response of an earlier
\* request, success or failure, leaves items, loading and error unchanged,
\* whatever order the responses arrive in.
StaleResponseDiscarded ==
  [][\A r \in Responding : r.id < reqId => UNCHANGED <<items, loading, error>>]_vars

\* the first of two requests answered last, after the second was applied: the
\* second request's items are the ones shown
StaleResponseDiscardedWitness ==
  /\ lastResp.ok /\ lastResp.result # <<>>
  /\ lastResp.id > 0 /\ lastResp.id < hiApplied
  /\ hiApplied = reqId
  /\ items # <<>> /\ \A i \in 1..Len(items) : items[i].req = reqId
  /\ ~loading /\ error = Null

\* every fetchContent call so far started a request, and all have settled
AllSettled == calls # <<>> /\ inflight = {}

\* C2 as stated: once all requests have settled (each having succeeded or
\* failed), the items shown are the result of the highest-numbered request
\* among those that succeeded.
RecencyOfHighestSucceeded ==
  (AllSettled /\ uncaught = 0 /\ bestOk.id > 0) => items = bestOk.result

\* C2 amended: once all requests have settled, the items shown are the result
\* of the most recently issued request if it succeeded, and are empty if it
\* did not, also when an earlier request succeeded.
RecencyOfLatestIssued ==
  AllSettled =>
    items = IF topSettled.id = reqId /\ topSettled.ok THEN bestOk.result ELSE <<>>

\* two requests have settled, the later one with two items, which are shown
RecencyOfLatestIssuedWitness ==
  /\ AllSettled /\ Len(calls) >= 2
  /\ topSettled.id = reqId /\ topSettled.ok
  /\ lastResp.id < reqId /\ lastResp.id > 0
  /\ Len(items) = 2 /\ items = bestOk.result

\* a successful response is applied in this step: items replaced, loading
\* off, error clear, the reveal scheduled
AppliedNow ==
  /\ items' = lastResp'.result
  /\ loading' = FALSE
  /\ error' = Null
  /\ rafPending' = rafPending + 1

\* C3 as stated: a successful response is applied if and only if its
\* sequence number is greater than the highest one applied before.
AppliedIffAboveHighestApplied ==
  [][\A r \in Responding : lastResp'.ok => (AppliedNow <=> r.id > hiApplied)]_vars

\* C3 amended: a successful response is applied if and only if its sequence
\* number is that of the most recently issued request; a response for request
\* k that arrives after a later request was issued is dropped, also when
\* nothing newer has been applied.
AppliedIffLatestIssued ==
  [][\A r \in Responding : lastResp'.ok =>
        IF r.id = reqId THEN AppliedNow
        ELSE UNCHANGED <<items, loading, error, rafPending>>]_vars

\* a successful response with items for a request that is no longer the
\* latest, arrived while the latest is pending and nothing was applied yet:
\* it was dropped
AppliedIffLatestIssuedWitness ==
  /\ lastResp.ok /\ lastResp.result # <<>>
  /\ lastResp.id > 0 /\ lastResp.id < reqId
  /\ hiApplied = 0
  /\ \E r \in inflight : r.id = reqId
  /\ items = <<>> /\ loading

\* C4: in no state are items fetched for one category shown while the
\* current category is another.
NoItemsOfAnotherCategory ==
  \A i \in 1..Len(items) : items[i].cat = category

\* C5: when a fetch fails and the failing request is still the most recently
\* issued one, the controller ends with the error set, loading off and no
\* items; the failure of a superseded request changes nothing.
FailureOfLatestSetsError ==
  [][\A r \in Responding : ~lastResp'.ok =>
        /\ r.id = reqId => (error' = LoadError /\ loading' = FALSE /\ items' = <<>>)
        /\ r.id < reqId => UNCHANGED <<items, loading, error>>]_vars

\* the latest request has just failed: the error is shown
FailureOfLatestSetsErrorWitness ==
  /\ lastResp.id > 0 /\ lastResp.id = reqId /\ ~lastResp.ok
  /\ error = LoadError /\ ~loading /\ items = <<>>

\* C6: no failure of a search attempt escapes the controller uncaught, and
\* once the fetch attempt of the latest request has ended loading is off.
NoFailureEscapes ==
  /\ uncaught = 0
  /\ (calls # <<>> /\ ~\E r \in inflight : r.id = reqId) => ~loading

\* C8: a timer never fires after a newer text edit or category change: the
\* timer that fires has waited its whole delay, was set for the category and
\* the text that are current when it fires, and the request issued carries
\* that category and that text, trimmed.
TimerFiresForCurrentInput ==
  [][Fetching =>
        /\ \E t \in Firing :
              /\ Due(t)
              /\ t.cat = category /\ t.search = search
              /\ t.delay = Delay(search)
        /\ \A r \in inflight' \ inflight :
              r.cat = category /\ r.params = Params(Trim(search))]_vars

\* a debounced request is in flight for the text in the search box and the
\* current category, and no timer is left
TimerFiresForCurrentInputWitness ==
  /\ Truthy(Trim(search)) /\ timers = {}
  /\ \E r \in inflight :
        r.id = reqId /\ r.cat = category /\ r.params = [limit |-> 5, search |-> Trim(search)]

\* C9: after a category change the next request issued is for the new
\* category with empty filter text, from a timer with no delay.
CategoryChangeIssuesEmptyQuery ==
  [][(Fetching /\ catChanged) =>
        /\ \E t \in Firing : t.cat = category /\ t.search = <<>> /\ t.delay = 0
        /\ \A r \in inflight' \ inflight :
              r.cat = category /\ r.params = [limit |-> 5]]_vars

\* C10: fetchContent captures its sequence number by incrementing the counter
\* before the fetch starts: the numbers captured are strictly increasing in
\* order of issue, the counter holds the last of them, and the requests in
\* flight carry distinct numbers among them.
SequenceNumbersIncrease ==
  /\ \A i, j \in 1..Len(calls) : i < j => calls[i] < calls[j]
  /\ calls # <<>> => reqId = calls[Len(calls)]
  /\ \A r \in inflight : \E i \in 1..Len(calls) : calls[i] = r.id
  /\ \A r1, r2 \in inflight : r1.id = r2.id => r1 = r2

\* two requests in flight at once, numbered in order of issue
SequenceNumbersIncreaseWitness ==
  /\ Len(calls) >= 2
  /\ \E r1, r2 \in inflight : r1.id = calls[1] /\ r2.id = calls[2] /\ r1.id < r2.id

\* C11: the sequence numbers of the responses applied to the search state
\* are strictly increasing: a response that changes items, loading or error
\* carries a number above every number applied before it.
AppliedNumbersIncrease ==
  [][\A r \in Responding :
        shown' # shown => (r.id > hiApplied /\ hiApplied' = r.id)]_vars

\* request 2 was applied with items; request 1 then failed, and the state
\* still holds request 2's items with no error
AppliedNumbersIncreaseWitness ==
  /\ hiApplied = 2 /\ reqId = 2
  /\ lastResp.id = 1 /\ ~lastResp.ok
  /\ items # <<>> /\ \A i \in 1..Len(items) : items[i].req = 2
  /\ error = Null /\ ~loading

\* C12: an edit of the search text from non-empty to empty arms a timer with
\* no delay for the current category and the empty text; every request
\* issued carries limit 5 and the trimmed text of its timer as filter, the
\* search parameter being left out exactly when the trimmed text is empty.
EmptyTextIsAQuery ==
  [][/\ (search # <<>> /\ search' = <<>> /\ ~pendingEffect') =>
          \E t \in timers' :
             t.cur /\ t.cat = category' /\ t.search = <<>> /\ t.delay = 0 /\ Due(t)
     /\ Fetching =>
          \E t \in Firing : \A r \in inflight' \ inflight :
             /\ r.cat = t.cat
             /\ r.params.limit = 5
             /\ ("search" \in DOMAIN r.params) <=> (Trim(t.search) # <<>>)
             /\ "search" \in DOMAIN r.params => r.params.search = Trim(t.search)]_vars

\* a filtered request was issued, the text was then emptied, and an
\* unfiltered request for the same category is in flight beside it
EmptyTextIsAQueryWitness ==
  /\ search = <<>> /\ Len(calls) = 2
  /\ \E r1, r2 \in inflight :
        /\ r1.id = 1 /\ r2.id = 2 /\ r2.id = reqId
        /\ r1.cat = category /\ r2.cat = category
        /\ r1.params = [limit |-> 5, search |-> <<"a">>]
        /\ r2.params = [limit |-> 5]

\* C25: when a search response is accepted the items shown become exactly
\* that response's item sequence, in its order, and empty when the response
\* carries no data; every item shown came with that response.
AcceptedResponseReplacesItems ==
  [][\A r \in Responding : (lastResp'.ok /\ r.id = reqId) =>
        /\ items' = lastResp'.result
        /\ \A i \in 1..Len(items') : items'[i].req = r.id /\ items'[i].id = i]_vars

\* the second request was answered last, with two items, and these two are
\* shown in the order of the response
AcceptedResponseReplacesItemsWitness ==
  /\ Len(calls) = 2 /\ reqId = 2
  /\ lastResp.id = 2 /\ lastResp.ok /\ hiApplied = 2
  /\ Len(items) = 2 /\ items[1].id = 1 /\ items[2].id = 2
  /\ \A i \in 1..Len(items) : items[i].req = 2

\* C29: in every state a step leads to (the initial state has no error) a
\* set error implies that items is empty and loading is false, and every
\* fetchContent call clears the error and the items and sets loading before
\* its response arrives.
ErrorImpliesEmptyAndIdle ==
  [][/\ error' # Null => (items' = <<>> /\ ~loading')
     /\ Fetching => (error' = Null /\ items' = <<>> /\ loading' = TRUE)]_vars

\* the first request failed and its error was shown; the second request is
\* in flight with the error cleared
ErrorImpliesEmptyAndIdleWitness ==
  /\ Len(calls) = 2 /\ hiApplied = 1
  /\ lastResp.id = 1 /\ ~lastResp.ok
  /\ \E r \in inflight : r.id = 2
  /\ error = Null /\ loading /\ items = <<>>

-----------------------------------------------------------------------------
\* Properties of the category registry (under SpecRegistry).

\* C7: getContentByCategory fails with an unknown-category error and calls no
\* fetcher when the category is not one of the five known keys, never
\* returning a value for it; for a known category it calls exactly that
\* category's fetcher with the params given.
UnknownCategoryIsHardStop ==
  \A i \in 1..Len(regLog) :
    LET e == regLog[i]
    IN  IF e.category \in {"cinema", "music", "games", "books", "travel"}
        THEN /\ e.result.kind = "return"
             /\ e.result.calls = <<[fn |-> CATEGORY_FETCHERS[e.category],
                                    params |-> e.params]>>
        ELSE /\ e.result.kind = "throw"
             /\ e.result.type = "Unknown category"
             /\ e.result.calls = <<>>

-----------------------------------------------------------------------------
\* Properties of the style composer (under SpecStyle).

\* C13: updateStyle(key, value) changes only the field named key of the
\* style: after it that field holds value and each of the other five fields
\* holds what it held before the call.
UpdateChangesOnlyKey ==
  [][lastUpdate'.key \in StyleFields =>
        /\ DOMAIN style' = DOMAIN style
        /\ style'[lastUpdate'.key] = lastUpdate'.value
        /\ \A f \in StyleFields \ {lastUpdate'.key} : style'[f] = style[f]]_vars

\* the layout was the last field updated, and the five fields updated before
\* it still hold the values they were given
UpdateChangesOnlyKeyWitness ==
  /\ lastUpdate = [key |-> "cardLayout", value |-> "minimal"]
  /\ style = [font |-> "serif", bgColor |-> "#1a1a2e", bgTexture |-> "dots",
              textAlign |-> "center", titleSize |-> "large", cardLayout |-> "minimal"]

\* C14: after initialization from DEFAULT_STYLE and any sequence of updates
\* issued by the customizer's controls the style has all six fields defined,
\* bgColor being null or an offered colour and every other field one of the
\* keys offered for it.
StyleAlwaysDefined ==
  /\ DOMAIN style = StyleFields
  /\ \A f \in StyleFields : style[f] # Undefined /\ style[f] \in Offered(f)
  /\ \A f \in StyleFields \ {"bgColor"} : style[f] # Null

\* every field has been moved off its default, and the colour set back to auto
StyleAlwaysDefinedWitness ==
  /\ lastUpdate = [key |-> "bgColor", value |-> Null]
  /\ style.bgColor = Null
  /\ \A f \in StyleFields \ {"bgColor"} : style[f] # DEFAULT_STYLE[f]

-----------------------------------------------------------------------------
\* Properties of the story card (under SpecCard).

\* the card with getSubtitle, getContentImage and the badges was rendered
TypedCard == card.rendered /\ card.variant = "typed"

\* C15: for every explicit background colour #RRGGBB the text colour of the
\* card is the dark foreground exactly when R*299 + G*587 + B*114 > 160000,
\* and white otherwise; #1a1a2e gives white text, and so does no explicit
\* colour.
TextColourByLuminance ==
  TypedCard =>
    LET bg == card.props.customStyle.bgColor
    IN  /\ card.out.textColor \in {DarkText, LightText}
        /\ \A t \in Channels : \A u \in BOOLEAN :
              bg = Str(ColourChars(t, u)) =>
                (card.out.textColor = DarkText
                   <=> t.r * 299 + t.g * 587 + t.b * 114 > 160000)
        /\ bg = "#1a1a2e" => card.out.textColor = LightText
        /\ bg \in {Undefined, Null} => card.out.textColor = LightText

\* the background #a0a0a1, whose weighted sum 160114 is just above the
\* threshold, rendered with dark text
TextColourByLuminanceWitness ==
  /\ TypedCard
  /\ card.props.customStyle.bgColor = "#a0a0a1"
  /\ card.out.textColor = DarkText

\* C16: for every category and content item the subtitle the card renders
\* is the secondary line getSecondary of ContentSelector gives for the same
\* category and item.
SubtitleIsSecondary ==
  (TypedCard /\ card.props.content # NoContent) =>
    card.out.subtitle = GetSecondary(card.props.category, card.props.content)

\* the fields assigned to a category; for games and books also the cover and
\* image the card shows for them
CategoryFields(c) ==
  CASE c = "cinema" -> {"year", "director", "poster", "image"}
    [] c = "music"  -> {"artist", "cover", "image"}
    [] c = "games"  -> {"platform", "cover", "image"}
    [] c = "books"  -> {"author", "cover", "image"}
    [] c = "travel" -> {"city", "country", "image"}

\* the fields assigned to another category and not to c
OtherFields(c) ==
  UNION {CategoryFields(d) : d \in CATEGORIES \ {c}} \ CategoryFields(c)

\* what the card rendered shows for other props
RenderAgain(props) ==
  IF card.variant = "typed" THEN StoryCard(props) ELSE StoryCardSniffing(props)

\* C17: the subtitle and the image a card renders for category c do not
\* change when a field of another category is changed on the item.
CategoryIsolation ==
  (card.rendered /\ card.props.content # NoContent) =>
    \A f \in OtherFields(card.props.category) : \A v \in FieldValues :
      LET again == RenderAgain([card.props EXCEPT !.content[f] = v])
      IN  again.subtitle = card.out.subtitle /\ again.image = card.out.image

\* the category a kind of badge belongs to
BadgeCategory(kind) ==
  CASE kind = "episode"    -> "cinema"
    [] kind = "difficulty" -> "games"
    [] kind = "pages"      -> "books"
    [] kind = "weather"    -> "travel"

\* C18: the episode badge is shown only when the category is cinema and the
\* item has both season and episode, the page-count badge only when the
\* category is books and the page count is present, the weather badge only
\* when the category is travel and weather is present; no badge of one
\* category is shown on a card of another.
BadgesByCategory ==
  TypedCard =>
    \A i \in 1..Len(card.out.badges) :
      LET kind == card.out.badges[i].kind
          item == card.props.content
      IN  /\ BadgeCategory(kind) = card.props.category
          /\ kind = "episode" =>
               NotNullish(Field(item, "season")) /\ NotNullish(Field(item, "episode"))
          /\ kind = "pages" => NotNullish(Field(item, "totalPages"))
          /\ kind = "weather" => NotNullish(Field(item, "weather"))

\* an item that carries season, episode, difficulty, page count and weather,
\* rendered as cinema: the episode badge is the only one
BadgesByCategoryWitness ==
  /\ TypedCard
  /\ card.props.category = "cinema" /\ card.props.content = Hybrid
  /\ Len(card.out.badges) = 1 /\ card.out.badges[1].kind = "episode"

\* a colour is given: not undefined, null or the empty string
Given(colour) == colour \notin {Undefined, Null, ""}

\* C19: the background is the explicit bgColor when one is given, else the
\* content's dominant colour when one is given, else the gradient of the
\* category; the gradient is used exactly when both are absent.
BackgroundPriority ==
  TypedCard =>
    LET bg  == card.props.customStyle.bgColor
        dom == card.props.dominantColor
        out == card.out.background
    IN  /\ Given(bg) => out = [kind |-> "explicit", of |-> bg]
        /\ (~Given(bg) /\ Given(dom)) => out = [kind |-> "dominant", of |-> dom]
        /\ (out.kind = "category") <=> (~Given(bg) /\ ~Given(dom))
        /\ out.kind = "category" => out.of = CATEGORY_GRADIENTS[card.props.category]

\* an explicit colour and a dominant colour both given: the explicit one is
\* the background
BackgroundPriorityWitness ==
  /\ TypedCard
  /\ card.props.customStyle.bgColor = "#f5f0e8"
  /\ card.props.dominantColor = "#336699"
  /\ card.out.background = [kind |-> "explicit", of |-> "#f5f0e8"]

-----------------------------------------------------------------------------
\* Properties of the story composer (under SpecStory).

\* C20: the preview attaches a caption only if the caption is non-empty
\* after trimming: a caption made of whitespace only is not rendered on the
\* card, and is not sent in a share.
CaptionOnlyIfNonBlank ==
  generator = "first" =>
    /\ selectedContent # NoContent => (Preview.hasCaption => Truthy(Trim(caption)))
    /\ \A i \in 1..Len(shares) :
         shares[i].caption.defined => Truthy(Trim(shares[i].caption.text))

\* a step in which handleShare ran up to its return or its await
ShareCalled == shareLog' # shareLog /\ shareLog' \in {"refused", "called"}

\* C21: handleShare invoked with no selected content makes no call to
\* createShare and leaves sharing and shareResult unchanged.
NoContentNoShare ==
  [][(ShareCalled /\ selectedContent = NoContent) =>
        /\ shares' = shares
        /\ sharing' = sharing
        /\ shareResult' = shareResult]_vars

\* handleShare has returned at its first line while an earlier share was
\* still in flight: the call, and sharing, are as before
NoContentNoShareWitness ==
  /\ shareLog = "refused"
  /\ selectedContent = NoContent
  /\ sharing
  /\ Len(shares) = 1

\* a step in which createShare is called
ShareStarts == Len(shares') > Len(shares)

\* a step in which a createShare call settles
ShareSettles == Len(shares') < Len(shares)

\* one step of the share submitter's lifecycle
LifecycleStep ==
  /\ ShareStarts => (sharing' /\ shareResult' = NoResult)
  /\ ShareSettles =>
       /\ ~sharing'
       /\ shareLog' = "resolved" => shareResult'.type = "success"
       /\ shareLog' = "rejected" => shareResult'.type = "error"
  /\ sharing' # sharing => (ShareStarts \/ ShareSettles)
  /\ sharing' => shares' # <<>>

\* C22: the share submitter moves only idle -> submitting -> succeeded or
\* failed: a submit with selected content sets sharing and clears the
\* previous outcome; when the call settles sharing is false and the outcome
\* is success on resolve and error on rejection; sharing changes in no other
\* step, and is never true once the call has settled.
ShareLifecycle == [][LifecycleStep]_vars

\* the lifecycle holds of the first StoryGenerator
ShareLifecycleOfFirst == [][generator = "first" => LifecycleStep]_vars

\* the body of the createShare call made in this step
Submitted == shares'[Len(shares')]

\* C23: every share submission hands over the current category, the
\* selected item's id, the caption (omitted when empty) and a snapshot of
\* the current style, all as they are at the moment of the submit.
DraftCarriesCurrentState ==
  [][ShareStarts =>
        /\ Submitted.category = category
        /\ "contentId" \in DOMAIN Submitted
        /\ Submitted.contentId = selectedContent.id
        /\ Submitted.caption \in {CaptionProp(caption), DraftCaption(caption)}
        /\ "style" \in DOMAIN Submitted
        /\ Submitted.style = style]_vars

\* what each handleShare does hand over
DraftAsCoded ==
  [][ShareStarts =>
        /\ Submitted.category = category
        /\ generator = "first" =>
             /\ Submitted.contentId = selectedContent.id
             /\ Submitted.caption = DraftCaption(caption)
             /\ "style" \notin DOMAIN Submitted
        /\ generator = "second" =>
             /\ Submitted.content = selectedContent
             /\ Submitted.caption = CaptionOf(caption)
             /\ Submitted.style = style
             /\ "contentId" \notin DOMAIN Submitted]_vars

\* the captions of the share bodies handed to createShare are within the limit
WithinLimit ==
  \A i \in 1..Len(shares) :
    shares[i].caption.defined => Length(shares[i].caption.text) <= CaptionMaxLength

\* C24: the caption of every submitted share draft has length at most 500,
\* for any sequence of caption edits the StoryGenerator accepts before the
\* submit.
CaptionWithinLimit == WithinLimit

\* the limit holds of the first StoryGenerator, whose textarea has maxLength
CaptionWithinLimitOfFirst == generator = "first" => WithinLimit

\* the first StoryGenerator has sent a caption of exactly 500 characters
CaptionAtLimitOfFirst ==
  /\ generator = "first"
  /\ \E i \in 1..Len(shares) : shares[i].caption = CaptionOf(<<Run, "a">>)

\* C28: at most one share submission is in flight at any time: while
\* sharing is true the submit control is disabled, so no second createShare
\* call starts before the first has settled.
AtMostOneShareInFlight ==
  /\ Len(shares) <= 1
  /\ sharing => ~ShareButtonEnabled
  /\ [][ShareStarts => (~sharing /\ shares = <<>>)]_vars

\* a submission is in flight and the button, rendered for the selected
\* item, is disabled
AtMostOneShareInFlightWitness ==
  /\ generator = "first"
  /\ Len(shares) = 1
  /\ sharing
  /\ selectedContent # NoContent
  /\ shareLog = "called"

\* {shareResult && <div ...>} inside the {selectedContent ? ...} branch of
\* the first StoryGenerator: an outcome is on the screen
OutcomeShown ==
  generator = "first" /\ selectedContent # NoContent /\ shareResult # NoResult

\* the share body d was made from the selection of the next state
OfSelection(d) ==
  /\ d.category = category'
  /\ d.contentId = selectedContent'.id

\* C27: a share outcome shown always refers to the content and category
\* currently selected: an outcome that arrives is shown only with the
\* selection it was submitted for, and no outcome is shown any more once the
\* category has changed or a different item has been selected.
OutcomeOfCurrentSelection ==
  [][OutcomeShown' =>
       /\ \A i \in 1..Len(shares) :
            shares' = Without(shares, i) => OfSelection(shares[i])
       /\ category' = category
       /\ selectedContent' = selectedContent]_vars

-----------------------------------------------------------------------------
\* Properties of the story composer with its selector (under SpecSelect).

\* C26: the selected content always belongs to the current category: for any
\* interleaving of category changes, search responses and item clicks, no
\* item fetched for one category is the selected content while the current
\* category is another.
SelectionOfCurrentCategory ==
  selectedContent # NoContent => selectedContent.cat = category

\* the selection is dropped at every change of category
SelectionDroppedAtChange ==
  [][category' # category => selectedContent' = NoContent]_vars

-----------------------------------------------------------------------------
\* Properties of the application shell (under SpecShell).

\* the token of a form's response is put into the storage in this step
TokenStored == localStorage'.token # localStorage.token /\ localStorage'.token # Null

\* C30: after every login, registration and logout made in the window the
\* isAuthed flag equals whether a token is present in local storage: once a
\* login or a registration has stored its token the shell shows the
\* authenticated navigation, and after a logout the token and the user are
\* removed and isAuthed is false.
AuthedIffTokenPresent ==
  [][/\ isAuthed' <=> SyncAuthState(localStorage')
     /\ TokenStored => isAuthed'
     /\ (isAuthed /\ ~isAuthed') => localStorage' = EmptyStorage]_vars

\* the logout half: the flag goes off only together with the removal of
\* both items, and is never on without a token
LogoutClearsBoth ==
  [][/\ isAuthed' => SyncAuthState(localStorage')
     /\ (isAuthed /\ ~isAuthed') => localStorage' = EmptyStorage]_vars

====
